---- MODULE Spec2Model ----
(***************************************************************************)
(* DirectoryGenerator (src/generate_dirs.py): a generator object is built  *)
(* from a YAML config source and a root directory, generate() walks the    *)
(* config tree creating directories, writes a README report and returns    *)
(* the sorted record of created directories.                               *)
(*                                                                         *)
(* Strings are sequences of one-character strings, so that strip(), the    *)
(* str()/Path() conversions and sorted() are computed, not assumed.        *)
(* A pathlib Path is a record [anchored, parts]; the filesystem is the set *)
(* of absolute part-sequences that are directories.                        *)
(***************************************************************************)
EXTENDS Naturals, Sequences, FiniteSets

\* ------------------------------------------------------------ bounds
\* generate() invocations one behaviour follows (the second is the re-run).
MaxRuns == 2
\* directories whose creation the environment refuses at the same time.
MaxDenied == 2

\* ------------------------------------------------------------ strings
\* Unicode code points of the characters used, as sorted() compares them.
Ord(c) ==
    CASE c = " " -> 32
      [] c = "/" -> 47
      [] c = "a" -> 97
      [] c = "b" -> 98
      [] c = "g" -> 103
      [] c = "l" -> 108
      [] c = "o" -> 111
      [] c = "r" -> 114
      [] c = "s" -> 115
      [] c = "w" -> 119

RECURSIVE StrLess(_, _)
\* s < t on Python str: lexicographic by code point, a proper prefix first.
StrLess(s, t) ==
    IF s = <<>> THEN t # <<>>
    ELSE IF t = <<>> THEN FALSE
    ELSE IF s[1] = t[1] THEN StrLess(Tail(s), Tail(t))
    ELSE Ord(s[1]) < Ord(t[1])

RECURSIVE LStrip(_)
LStrip(s) == IF s # <<>> /\ s[1] = " " THEN LStrip(Tail(s)) ELSE s

RECURSIVE RStrip(_)
RStrip(s) ==
    IF s # <<>> /\ s[Len(s)] = " " THEN RStrip(SubSeq(s, 1, Len(s) - 1)) ELSE s

\* dir_name.strip()
Strip(s) == RStrip(LStrip(s))

\* ------------------------------------------------------------ paths
\* the process's working directory, /w
Cwd == << <<"w">> >>

\* Path("logs") of setup_logger
LogDir == [anchored |-> FALSE, parts |-> << <<"l", "o", "g", "s">> >>]

\* current_path / name, for a name without a separator: pathlib drops an
\* empty segment, so Path("r") / "" is Path("r").
Join(p, name) ==
    IF name = <<>> THEN p ELSE [p EXCEPT !.parts = Append(p.parts, name)]

\* path.resolve(): the absolute part-sequence (no symbolic links, no "..").
Resolve(p) == IF p.anchored THEN p.parts ELSE Cwd \o p.parts

RECURSIVE PathStr(_)
\* str() of an absolute path: "/" + "/".join(parts)
PathStr(parts) ==
    IF parts = <<>> THEN <<"/">>
    ELSE IF Len(parts) = 1 THEN <<"/">> \o parts[1]
    ELSE PathStr(SubSeq(parts, 1, Len(parts) - 1)) \o <<"/">> \o parts[Len(parts)]

RECURSIVE SplitParts(_, _)
\* the segments of s between separators; cur is the segment being read.
SplitParts(s, cur) ==
    IF s = <<>> THEN (IF cur = <<>> THEN <<>> ELSE <<cur>>)
    ELSE IF s[1] = "/"
         THEN (IF cur = <<>> THEN <<>> ELSE <<cur>>) \o SplitParts(Tail(s), <<>>)
         ELSE SplitParts(Tail(s), Append(cur, s[1]))

\* Path(dir_path) of a string
ParsePath(s) ==
    [anchored |-> (s # <<>> /\ s[1] = "/"), parts |-> SplitParts(s, <<>>)]

IsPrefix(a, b) == Len(a) <= Len(b) /\ SubSeq(b, 1, Len(a)) = a

\* p.relative_to(base): ValueError (ok = FALSE) when one is anchored and the
\* other is not, or when base's parts do not start p's.
RelativeTo(p, base) ==
    IF p.anchored = base.anchored /\ IsPrefix(base.parts, p.parts)
    THEN [ok |-> TRUE, parts |-> SubSeq(p.parts, Len(base.parts) + 1, Len(p.parts))]
    ELSE [ok |-> FALSE, parts |-> <<>>]

\* ------------------------------------------------------------ filesystem
\* the directories that exist before the program starts: / and the cwd
InitialDisk == {<<>>, Cwd}

Parent(a) == SubSeq(a, 1, Len(a) - 1)

RECURSIVE MkdirP(_, _, _)

\* a mutant of MkdirP: exist_ok is not honoured, an existing directory is an
\* error (FileExistsError).
MkdirPExistNotOk(a, dk, den) ==
    IF a \in dk THEN [ok |-> FALSE, disk |-> dk]
    ELSE IF Parent(a) \notin dk
    THEN LET up == MkdirP(Parent(a), dk, den)
         IN  IF ~up.ok THEN [ok |-> FALSE, disk |-> up.disk]
             ELSE IF a \in den THEN [ok |-> FALSE, disk |-> up.disk]
             ELSE [ok |-> TRUE, disk |-> up.disk \cup {a}]
    ELSE IF a \in den THEN [ok |-> FALSE, disk |-> dk]
    ELSE [ok |-> TRUE, disk |-> dk \cup {a}]

\* path.mkdir(parents=True, exist_ok=True) on the absolute path a, with the
\* directories dk and the paths den whose os.mkdir the environment refuses
\* (PermissionError). An existing directory is success; a missing parent is
\* made first (and stays when a itself is then refused). ok = FALSE is the
\* OSError raised.
MkdirP(a, dk, den) ==
    IF a \in dk THEN [ok |-> TRUE, disk |-> dk]
    ELSE IF Parent(a) \notin dk
    THEN LET up == MkdirP(Parent(a), dk, den)
         IN  IF ~up.ok THEN [ok |-> FALSE, disk |-> up.disk]
             ELSE IF a \in den THEN [ok |-> FALSE, disk |-> up.disk]
             ELSE [ok |-> TRUE, disk |-> up.disk \cup {a}]
    ELSE IF a \in den THEN [ok |-> FALSE, disk |-> dk]
    ELSE [ok |-> TRUE, disk |-> dk \cup {a}]

\* _create_dir(path): mkdir, then the exists() test, then the resolved path
\* string is added to created_dirs; any exception becomes False.
CreateDir(path, dk, den, created) ==
    LET made == MkdirP(Resolve(path), dk, den)
    IN  IF ~made.ok THEN [ok |-> FALSE, disk |-> made.disk, created |-> created]
        ELSE IF Resolve(path) \notin made.disk
        THEN [ok |-> FALSE, disk |-> made.disk, created |-> created]
        ELSE [ok |-> TRUE, disk |-> made.disk,
              created |-> created \cup {PathStr(Resolve(path))}]

\* ------------------------------------------------------------ config trees
\* what yaml.safe_load yields under directory_structure: a mapping (ordered
\* items name -> children), a list of names, None, or any other scalar.
NoneNode == [kind |-> "none", items |-> <<>>, names |-> <<>>]
ScalarNode == [kind |-> "other", items |-> <<>>, names |-> <<>>]
ListNode(ns) == [kind |-> "list", items |-> <<>>, names |-> ns]
DictNode(its) == [kind |-> "dict", items |-> its, names |-> <<>>]
Item(n, c) == [name |-> n, children |-> c]

nA == <<"a">>
nB == <<"b">>
nPadA == <<" ", "a", " ">>
nBlank == <<" ">>
nAB == <<"a", " ", "b">>

\* the config trees the generator is run on
Configs ==
    { NoneNode,
      ScalarNode,
      DictNode(<<>>),
      ListNode(<<>>),
      DictNode(<<Item(nA, ListNode(<<nA, nB>>)), Item(nB, NoneNode)>>),
      DictNode(<<Item(nA, DictNode(<<Item(nB, ListNode(<<nA>>))>>))>>),
      DictNode(<<Item(nA, ScalarNode), Item(nB, NoneNode)>>),
      DictNode(<<Item(nBlank, NoneNode), Item(nA, ListNode(<<nB>>))>>),
      ListNode(<<nBlank, nA>>),
      ListNode(<<nPadA, nA, nB>>),
      DictNode(<<Item(nB, ListNode(<<nA>>)), Item(nAB, NoneNode),
                 Item(nA, ListNode(<<nB>>))>>),
      DictNode(<<Item(nA, DictNode(<<Item(nBlank, NoneNode)>>)), Item(nB, ScalarNode)>>),
      DictNode(<<Item(nA, ListNode(<<nB>>)), Item(nPadA, ListNode(<<nA>>))>>) }

\* the config sources: a readable file holding a tree, or one of the three
\* ways loading fails
Sources ==
    {[kind |-> "ok", tree |-> t] : t \in Configs}
    \cup {[kind |-> k, tree |-> NoneNode] : k \in {"unreadable", "unparsable", "nokey"}}

\* the root_dir arguments: "/r", "r" and the default "."
RootDirs ==
    { [anchored |-> TRUE, parts |-> << <<"r">> >>],
      [anchored |-> FALSE, parts |-> << <<"r">> >>],
      [anchored |-> FALSE, parts |-> <<>>] }

RECURSIVE Entries(_)
\* the positions of the tree that name a directory: a mapping key or a list
\* entry, addressed by the indices leading to it
Entries(node) ==
    IF node.kind = "dict"
    THEN UNION { {<<k>>} \cup {<<k>> \o e : e \in Entries(node.items[k].children)}
                 : k \in 1..Len(node.items) }
    ELSE IF node.kind = "list" THEN {<<k>> : k \in 1..Len(node.names)}
    ELSE {}

RECURSIVE EntryPath(_, _, _)
\* the Path the walk computes for the entry at address e below base
EntryPath(node, base, e) ==
    IF node.kind = "list" THEN Join(base, Strip(node.names[e[1]]))
    ELSE LET it == node.items[e[1]]
             here == Join(base, Strip(it.name))
         IN  IF Len(e) = 1 THEN here ELSE EntryPath(it.children, here, Tail(e))

RECURSIVE ChildOf(_, _)
\* the children value of the mapping key at address e
ChildOf(node, e) ==
    IF Len(e) = 1 THEN node.items[e[1]].children
    ELSE ChildOf(node.items[e[1]].children, Tail(e))

\* the paths the environment may refuse: the root and every entry's path
Deniable(tree, rd) ==
    {Resolve(rd)} \cup {Resolve(EntryPath(tree, rd, e)) : e \in Entries(tree)}

\* ------------------------------------------------------------ the generator
\* a mutant of LoadConfig: a source that cannot be loaded yields an empty tree.
LoadConfigLenient(s) == [ok |-> TRUE, tree |-> s.tree]

\* _load_config(path): open, yaml.safe_load, config['directory_structure'];
\* every exception is logged and raised again (ok = FALSE).
LoadConfig(s) ==
    IF s.kind = "unreadable" THEN [ok |-> FALSE, tree |-> NoneNode]
    ELSE IF s.kind = "unparsable" THEN [ok |-> FALSE, tree |-> NoneNode]
    ELSE IF s.kind = "nokey" THEN [ok |-> FALSE, tree |-> NoneNode]
    ELSE [ok |-> TRUE, tree |-> s.tree]

\* setup_logger: log_dir.mkdir(exist_ok=True) in the working directory
SetupLogger(dk) == dk \cup {Resolve(LogDir)}

\* a mutant of Descend: the children are processed whatever _create_dir said.
DescendAlways(ok) == TRUE

\* `if self._create_dir(new_path):` guards the recursive call
Descend(ok) == ok

\* a mutant of ItemAt: the entries are visited last to first.
ItemAtReversed(seq, i) == seq[Len(seq) + 1 - i]

\* the i-th element a for loop over a dict's items or over a list yields
ItemAt(seq, i) == seq[i]

\* a mutant of Dispatch: only None is skipped, any other value is iterated
\* like a list (and a scalar is not iterable).
DispatchNoElse(node) ==
    IF node.kind = "dict" THEN "branch"
    ELSE IF node.kind = "none" THEN "skip"
    ELSE IF node.kind = "list" THEN "leaves"
    ELSE "raise"

\* the isinstance chain of _process_node
Dispatch(node) ==
    IF node.kind = "dict" THEN "branch"
    ELSE IF node.kind = "list" THEN "leaves"
    ELSE IF node.kind = "none" THEN "skip"
    ELSE "skip"

RECURSIVE SortedFrom(_)
SortedFrom(S) ==
    IF S = {} THEN <<>>
    ELSE LET m == CHOOSE x \in S : \A y \in S \ {x} : StrLess(x, y)
         IN  <<m>> \o SortedFrom(S \ {m})

\* sorted(self.created_dirs)
Sorted(S) == SortedFrom(S)

\* the body of the loop of generate_readme for one recorded path: relative_to
\* the root, indent by len(parts) - 1, label parts[-1]. A ValueError gives
\* the fallback line; parts[-1] of an empty tuple is an IndexError, which the
\* except clause does not catch (raised = TRUE).
TreeLine(dir_path, rt) ==
    LET rel == RelativeTo(ParsePath(dir_path), rt)
    IN  IF ~rel.ok THEN [raised |-> FALSE, indent |-> 0, label |-> dir_path]
        ELSE IF rel.parts = <<>> THEN [raised |-> TRUE, indent |-> 0, label |-> <<>>]
        ELSE [raised |-> FALSE, indent |-> Len(rel.parts) - 1,
              label |-> rel.parts[Len(rel.parts)]]

\* dir_tree: one line per path of sorted(created_dirs); raised when a line's
\* construction raises.
DirTree(created, rt) ==
    LET paths == Sorted(created)
        lines == [k \in 1..Len(paths) |-> TreeLine(paths[k], rt)]
    IN  [raised |-> \E k \in 1..Len(paths) : lines[k].raised,
         count |-> Cardinality(created),
         lines |-> lines]

\* a mutant of WriteReadme: the failure of open()/write() is not caught.
WriteReadmeUncaught(canWrite) == IF canWrite THEN "true" ELSE "raised"

\* the try block that writes README.md: True, or False on any exception
WriteReadme(canWrite) == IF canWrite THEN "true" ELSE "false"

\* `return sorted(self.created_dirs)`, whatever readme_result is
ReturnValue(created, readmeResult) == Sorted(created)

\* ------------------------------------------------------------ state
VARIABLES
    src,            \* the config source handed to the constructor
    root_dir,       \* the root_dir argument
    denied,         \* absolute paths whose creation the environment refuses
    writable,       \* whether README.md can be opened for writing
    disk,           \* the directories that exist
    pc,             \* where the caller is: start, ctor_raised, ready, walk,
                    \* readme, return, done, raised
    config,         \* self.config
    root,           \* self.root
    created_dirs,   \* self.created_dirs
    stack,          \* the active _process_node calls, innermost last
    attempts,       \* the _create_dir calls of the current generate()
    readme,         \* what generate_readme built: whether markdown_lines was
                    \* completed, the count and the tree lines
    readme_result,  \* what generate_readme gave: none, true, false, raised
    result,         \* what generate() gave: none, or raised / the returned list
    runs,           \* generate() calls that have ended
    built,          \* generator objects constructed so far
    history         \* per ended run: the disk, the result, the attempts and
                    \* the generator that ran

vars == <<src, root_dir, denied, writable, disk, pc, config, root, created_dirs,
          stack, attempts, readme, readme_result, result, runs, built, history>>

env == <<src, root_dir, denied, writable>>

NoReadme == [built |-> FALSE, count |-> 0, lines |-> <<>>]
NoResult == [kind |-> "none", paths |-> <<>>]
Raised == [kind |-> "raised", paths |-> <<>>]
Returned(paths) == [kind |-> "returned", paths |-> paths]

\* the sets of refused paths tried for a source and a root
Denials(s, rd) ==
    {D \in SUBSET Deniable(s.tree, rd) : Cardinality(D) <= MaxDenied}

Init ==
    /\ src \in Sources
    /\ root_dir \in RootDirs
    /\ denied \in Denials(src, root_dir)
    /\ writable \in BOOLEAN
    /\ disk = InitialDisk
    /\ pc = "start"
    /\ config = NoneNode
    /\ root = root_dir
    /\ created_dirs = {}
    /\ stack = <<>>
    /\ attempts = <<>>
    /\ readme = NoReadme
    /\ readme_result = "none"
    /\ result = NoResult
    /\ runs = 0
    /\ built = 0
    /\ history = <<>>

RunEnded == pc \in {"done", "raised"}

\* the caller may call again while the bound allows
MayCall == pc = "start" \/ (RunEnded /\ runs < MaxRuns)

\* DirectoryGenerator(config_path, root_dir): the logger is set up, the config
\* loaded, then root and an empty created_dirs are set. When loading raises,
\* __init__ raises and the caller gets no object.
Construct ==
    /\ MayCall
    /\ disk' = SetupLogger(disk)
    /\ LET loaded == LoadConfig(src)
       IN  IF loaded.ok
           THEN /\ config' = loaded.tree
                /\ root' = root_dir
                /\ created_dirs' = {}
                /\ built' = built + 1
                /\ pc' = "ready"
           ELSE /\ pc' = "ctor_raised"
                /\ UNCHANGED <<config, root, created_dirs, built>>
    /\ stack' = <<>>
    /\ attempts' = <<>>
    /\ readme' = NoReadme
    /\ readme_result' = "none"
    /\ result' = NoResult
    /\ UNCHANGED <<env, runs, history>>

\* what is kept of a run that ended with outcome res
Ended(res) == [disk |-> disk, result |-> res, attempts |-> attempts, gen |-> built]

Frame(node, path, addr) == [node |-> node, path |-> path, addr |-> addr, i |-> 1]

\* generate(), up to the call of _process_node(self.config, self.root); on a
\* generator that has run before, created_dirs keeps what it holds.
Generate ==
    /\ pc = "ready" \/ (RunEnded /\ runs < MaxRuns)
    /\ pc' = "walk"
    /\ stack' = <<Frame(config, root, <<>>)>>
    /\ attempts' = <<>>
    /\ readme' = NoReadme
    /\ readme_result' = "none"
    /\ result' = NoResult
    /\ UNCHANGED <<env, disk, config, root, created_dirs, runs, built, history>>

Top == stack[Len(stack)]
Rest == SubSeq(stack, 1, Len(stack) - 1)
Advanced == [Top EXCEPT !.i = Top.i + 1]

Attempt(addr, path, ok, existed) ==
    [entry |-> addr, path |-> PathStr(Resolve(path)), ok |-> ok, existed |-> existed]

\* one iteration of the loop over a mapping: the key's directory is created
\* and, if that succeeded, its children are processed
BranchStep ==
    /\ pc = "walk" /\ stack # <<>>
    /\ Dispatch(Top.node) = "branch"
    /\ Top.i <= Len(Top.node.items)
    /\ LET it == ItemAt(Top.node.items, Top.i)
           new_path == Join(Top.path, Strip(it.name))
           addr == Append(Top.addr, Top.i)
           made == CreateDir(new_path, disk, denied, created_dirs)
       IN  /\ disk' = made.disk
           /\ created_dirs' = made.created
           /\ attempts' = Append(attempts,
                  Attempt(addr, new_path, made.ok, Resolve(new_path) \in disk))
           /\ stack' = IF Descend(made.ok)
                       THEN Rest \o <<Advanced, Frame(it.children, new_path, addr)>>
                       ELSE Append(Rest, Advanced)
    /\ UNCHANGED <<env, pc, config, root, readme, readme_result, result, runs, built,
                   history>>

\* one iteration of the loop over a list: the entry's directory is created
LeafStep ==
    /\ pc = "walk" /\ stack # <<>>
    /\ Dispatch(Top.node) = "leaves"
    /\ Top.i <= Len(Top.node.names)
    /\ LET new_path == Join(Top.path, Strip(ItemAt(Top.node.names, Top.i)))
           made == CreateDir(new_path, disk, denied, created_dirs)
       IN  /\ disk' = made.disk
           /\ created_dirs' = made.created
           /\ attempts' = Append(attempts,
                  Attempt(Append(Top.addr, Top.i), new_path, made.ok,
                          Resolve(new_path) \in disk))
    /\ stack' = Append(Rest, Advanced)
    /\ UNCHANGED <<env, pc, config, root, readme, readme_result, result, runs, built,
                   history>>

\* the caller's frame is resumed; after the outermost call generate() goes on
\* to the report
Unwind ==
    /\ stack' = Rest
    /\ pc' = IF Rest = <<>> THEN "readme" ELSE "walk"
    /\ UNCHANGED <<env, disk, config, root, created_dirs, attempts, readme,
                   readme_result, result, runs, built, history>>

\* a loop over a mapping or a list is exhausted: _process_node returns
LoopEnd ==
    /\ pc = "walk" /\ stack # <<>>
    /\ \/ Dispatch(Top.node) = "branch" /\ Top.i > Len(Top.node.items)
       \/ Dispatch(Top.node) = "leaves" /\ Top.i > Len(Top.node.names)
    /\ Unwind

\* the node is None or of an unsupported type: a debug or warning line is
\* logged and _process_node returns. (An exception in _process_node would
\* leave generate() through its except clause, which raises again.)
SkipNode ==
    /\ pc = "walk" /\ stack # <<>>
    /\ Dispatch(Top.node) \in {"skip", "raise"}
    /\ IF Dispatch(Top.node) = "skip"
       THEN Unwind
       ELSE /\ pc' = "raised"
            /\ stack' = <<>>
            /\ result' = Raised
            /\ runs' = runs + 1
            /\ history' = Append(history,
                   Ended(Raised))
            /\ UNCHANGED <<env, disk, config, root, created_dirs, attempts, readme,
                           readme_result, built>>

\* readme_result = self.generate_readme(): the tree lines are built from
\* sorted(created_dirs), then the file is written. An exception while the
\* lines are built leaves generate_readme and generate() (which logs it and
\* raises again).
GenerateReadme ==
    /\ pc = "readme"
    /\ LET tree == DirTree(created_dirs, root)
       IN  IF tree.raised
           THEN /\ pc' = "raised"
                /\ readme_result' = "raised"
                /\ result' = Raised
                /\ runs' = runs + 1
                /\ history' = Append(history,
                       Ended(Raised))
                /\ UNCHANGED readme
           ELSE /\ readme' = [built |-> TRUE, count |-> tree.count, lines |-> tree.lines]
                /\ readme_result' = WriteReadme(writable)
                /\ IF WriteReadme(writable) = "raised"
                   THEN /\ pc' = "raised"
                        /\ result' = Raised
                        /\ runs' = runs + 1
                        /\ history' = Append(history,
                               Ended(Raised))
                   ELSE /\ pc' = "return"
                        /\ UNCHANGED <<result, runs, history>>
    /\ UNCHANGED <<env, disk, config, root, created_dirs, stack, attempts, built>>

\* return sorted(self.created_dirs)
Return ==
    /\ pc = "return"
    /\ pc' = "done"
    /\ result' = Returned(ReturnValue(created_dirs, readme_result))
    /\ runs' = runs + 1
    /\ history' = Append(history,
           Ended(result'))
    /\ UNCHANGED <<env, disk, config, root, created_dirs, stack, attempts, readme,
                   readme_result, built>>

Next ==
    \/ Construct
    \/ Generate
    \/ BranchStep
    \/ LeafStep
    \/ LoopEnd
    \/ SkipNode
    \/ GenerateReadme
    \/ Return

Spec == Init /\ [][Next]_vars

\* ------------------------------------------------------------ vocabulary of the properties
IsProperPrefix(a, b) == Len(a) < Len(b) /\ SubSeq(b, 1, Len(a)) = a

RECURSIVE AddrLess(_, _)
\* pre-order of entry addresses: a parent before its descendants, an earlier
\* key or list entry (and all below it) before a later one
AddrLess(a, b) ==
    IF a = <<>> THEN b # <<>>
    ELSE IF b = <<>> THEN FALSE
    ELSE IF a[1] = b[1] THEN AddrLess(Tail(a), Tail(b))
    ELSE a[1] < b[1]

\* the resolved path string of the entry at address e of the loaded config
EntryStr(e) == PathStr(Resolve(EntryPath(config, root, e)))

AttemptedIn(log, e) == \E k \in 1..Len(log) : log[k].entry = e
SucceededIn(log, e) == \E k \in 1..Len(log) : log[k].entry = e /\ log[k].ok
FailedIn(log, e) == \E k \in 1..Len(log) : log[k].entry = e /\ ~log[k].ok

\* the walk of the current generate() is over
WalkOver == pc \in {"readme", "return", "done", "raised"}

\* the entries that share the parent of e
Siblings(e) ==
    {f \in Entries(config) :
        Len(f) = Len(e) /\ f # e /\ SubSeq(f, 1, Len(f) - 1) = SubSeq(e, 1, Len(e) - 1)}

\* q lists the set S in ascending order without repetition
IsSortedListOf(q, S) ==
    /\ {q[k] : k \in 1..Len(q)} = S
    /\ \A i, j \in 1..Len(q) : i < j => StrLess(q[i], q[j])

\* the environment lets the absolute path a be made: nothing on the way down
\* to it is refused, unless it exists from the start
Creatable(a) ==
    \A n \in 0..Len(a) :
        SubSeq(a, 1, n) \in denied => SubSeq(a, 1, n) \in InitialDisk

\* the reference tree: the paths of the entries the environment lets exist
ReferencePaths ==
    {EntryStr(e) : e \in {f \in Entries(config) : Creatable(Resolve(EntryPath(config, root, f)))}}

\* ------------------------------------------------------------ C1
\* C1: once _create_dir has failed for a mapping key, _create_dir is never
\* called for an entry below that key and no path of an entry below it is in
\* created_dirs.
C1_ShortCircuit ==
    \A k \in 1..Len(attempts) :
        ~attempts[k].ok =>
            \A e \in Entries(config) :
                IsProperPrefix(attempts[k].entry, e) =>
                    /\ ~AttemptedIn(attempts, e)
                    /\ EntryStr(e) \notin created_dirs

\* the spec's example: {a: {b: [a]}}, the creation of root/a refused, the run
\* over with an empty record
C1_Witness ==
    /\ pc = "done"
    /\ config = DictNode(<<Item(nA, DictNode(<<Item(nB, ListNode(<<nA>>))>>))>>)
    /\ FailedIn(attempts, <<1>>)
    /\ Len(attempts) = 1
    /\ created_dirs = {}

\* ------------------------------------------------------------ C2
\* C2: when a _create_dir call of a run has failed, that run still attempts
\* every sibling of the failed entry (the other entries of its list, the other
\* keys of its mapping), and generate() returns normally, with exactly the
\* paths whose creation succeeded.
C2_FailureContained ==
    (RunEnded /\ \E k \in 1..Len(attempts) : ~attempts[k].ok) =>
        /\ \A k \in 1..Len(attempts) :
               ~attempts[k].ok =>
                   \A f \in Siblings(attempts[k].entry) : AttemptedIn(attempts, f)
        /\ result.kind = "returned"
        /\ {result.paths[i] : i \in 1..Len(result.paths)}
               = {attempts[k].path : k \in {j \in 1..Len(attempts) : attempts[j].ok}}

\* ------------------------------------------------------------ C3
\* C3: every generate() returns, and what it returns is the ascending,
\* duplicate-free list of exactly the reference paths (the entries whose own
\* and whose ancestors' creation the environment lets succeed), each of which
\* is a directory afterwards.
C3_ResultIsReferenceTree ==
    RunEnded =>
        /\ result.kind = "returned"
        /\ IsSortedListOf(result.paths, ReferencePaths)
        /\ \A e \in Entries(config) :
               EntryStr(e) \in ReferencePaths => Resolve(EntryPath(config, root, e)) \in disk

\* ------------------------------------------------------------ C4
\* C4: a second generate() with the same config and root, on the same
\* generator or on a fresh one, ends with the directories and the outcome the
\* first one ended with; every _create_dir call on a directory that already
\* exists succeeds; the returned list has no path twice.
C4_Idempotent ==
    /\ \A n \in 1..Len(history) :
           /\ history[n].disk = history[1].disk
           /\ history[n].result = history[1].result
           /\ \A k \in 1..Len(history[n].attempts) :
                  history[n].attempts[k].existed => history[n].attempts[k].ok
           /\ \A i, j \in 1..Len(history[n].result.paths) :
                  i # j => history[n].result.paths[i] # history[n].result.paths[j]
    /\ \A k \in 1..Len(attempts) : attempts[k].existed => attempts[k].ok

\* a second run on the same generator has returned several paths, all of
\* whose directories existed when it tried them
C4_Witness ==
    /\ Len(history) = 2
    /\ history[2].gen = history[1].gen
    /\ history[2].result.kind = "returned"
    /\ Len(history[2].result.paths) >= 3
    /\ Len(history[2].attempts) >= 3
    /\ \A k \in 1..Len(history[2].attempts) : history[2].attempts[k].existed

\* the same on a generator constructed for the second run
C4_WitnessFresh ==
    /\ Len(history) = 2
    /\ history[2].gen # history[1].gen
    /\ history[2].result.kind = "returned"
    /\ Len(history[2].result.paths) >= 3
    /\ \A k \in 1..Len(history[2].attempts) : history[2].attempts[k].existed

\* ------------------------------------------------------------ C5
\* the k-th recorded path in ascending order
KthPath(k) ==
    CHOOSE x \in created_dirs : Cardinality({y \in created_dirs : StrLess(y, x)}) = k - 1

\* the segments of a recorded path below the resolved root
BelowRoot(x) ==
    LET p == ParsePath(x).parts
        r == Resolve(root)
    IN  SubSeq(p, Len(r) + 1, Len(p))

\* C5: whatever the root (relative or absolute), the report built has one tree
\* line per recorded path, in ascending order of the paths, each indented by
\* the path's depth below the root (a child of the root at level 0) and
\* labelled with its last segment; the count is the number of recorded paths.
C5_TreeRendering ==
    pc \in {"return", "done"} =>
        /\ readme.count = Cardinality(created_dirs)
        /\ Len(readme.lines) = Cardinality(created_dirs)
        /\ \A k \in 1..Len(readme.lines) :
               LET x == KthPath(k)
                   p == ParsePath(x).parts
                   b == BelowRoot(x)
               IN  /\ readme.lines[k].label = p[Len(p)]
                   /\ readme.lines[k].indent = (IF b = <<>> THEN 0 ELSE Len(b) - 1)

\* ------------------------------------------------------------ C6
\* C6: when the report text was built and README.md cannot be written,
\* generate_readme gives False and does not raise, generate() returns the
\* ascending list of created_dirs, and the step that builds and writes the
\* report changes neither created_dirs nor the directories.
C6_WriteFailureNotFatal ==
    /\ [](( /\ pc \in {"return", "done", "raised"}
            /\ readme.built
            /\ ~writable )
          => /\ readme_result = "false"
             /\ pc # "raised"
             /\ pc = "done" =>
                    /\ result.kind = "returned"
                    /\ IsSortedListOf(result.paths, created_dirs))
    /\ [][pc = "readme" => (created_dirs' = created_dirs /\ disk' = disk)]_vars

\* generate() has returned several paths although the write failed
C6_Witness ==
    /\ pc = "done"
    /\ ~writable
    /\ readme_result = "false"
    /\ result.kind = "returned"
    /\ Len(result.paths) >= 3

\* ------------------------------------------------------------ C7
\* a directory strictly below the resolved root
UnderRoot(d) == IsProperPrefix(Resolve(root_dir), d)

\* C7 as stated: when the source cannot be read, cannot be parsed or lacks
\* directory_structure, the constructor raises, no generator exists, and no
\* directory under the root has been created or recorded.
C7_LoadFailureTotal ==
    src.kind # "ok" =>
        /\ pc \in {"start", "ctor_raised"}
        /\ pc = "ctor_raised" =>
               /\ built = 0
               /\ created_dirs = {}
               /\ \A d \in disk \ InitialDisk : ~UnderRoot(d)

\* C7 amended: when the source cannot be read, cannot be parsed or lacks
\* directory_structure, the constructor raises, no generator exists, nothing
\* is recorded or attempted, and the only directory created is the logger's
\* logs directory in the working directory.
C7_LoadFailureOnlyLogs ==
    src.kind # "ok" =>
        /\ pc \in {"start", "ctor_raised"}
        /\ pc = "ctor_raised" =>
               /\ built = 0
               /\ created_dirs = {}
               /\ attempts = <<>>
               /\ result.kind = "none"
               /\ disk \ InitialDisk = {Resolve(LogDir)}
               /\ ~ENABLED Generate

\* the constructor has raised on a missing key, with the root being the
\* working directory, where logs now exists
C7_Witness ==
    /\ pc = "ctor_raised"
    /\ src.kind = "nokey"
    /\ root_dir.parts = <<>>
    /\ Resolve(LogDir) \in disk

\* ------------------------------------------------------------ C8
\* the entries not below a failed ancestor, by the outcomes logged
Eligible(e) ==
    \A n \in 1..(Len(e) - 1) : SucceededIn(attempts, SubSeq(e, 1, n))

\* C8: the _create_dir calls of one generate() are made in pre-order, each for
\* its entry's path, no entry twice (so never again after a failure); when the
\* walk is over exactly the entries not below a failed ancestor were tried.
C8_OnceInPreOrder ==
    /\ \A i, j \in 1..Len(attempts) :
           i < j => AddrLess(attempts[i].entry, attempts[j].entry)
    /\ \A k \in 1..Len(attempts) :
           /\ attempts[k].entry \in Entries(config)
           /\ attempts[k].path = EntryStr(attempts[k].entry)
           /\ Eligible(attempts[k].entry)
    /\ WalkOver =>
           \A e \in Entries(config) : Eligible(e) => AttemptedIn(attempts, e)

\* a walk is over in which a later key was tried after a failed key whose
\* subtree was left out
C8_Witness ==
    /\ pc = "done"
    /\ Len(attempts) >= 3
    /\ \E k \in 1..Len(attempts) :
           /\ ~attempts[k].ok
           /\ k < Len(attempts)
           /\ \E e \in Entries(config) : IsProperPrefix(attempts[k].entry, e)

\* ------------------------------------------------------------ C9
\* C9: whatever created_dirs holds, also the root itself, the report is built
\* with a line per recorded path and generate() returns.
C9_ReportNeverFails ==
    RunEnded =>
        /\ readme_result \in {"true", "false"}
        /\ Len(readme.lines) = Cardinality(created_dirs)
        /\ result.kind = "returned"

\* ------------------------------------------------------------ C10
\* the mapping keys whose children value is None or of an unsupported type
SkippedChild(e) ==
    /\ e \in Entries(config)
    /\ SucceededIn(attempts, e)
    /\ LET owner == IF Len(e) = 1 THEN config ELSE ChildOf(config, SubSeq(e, 1, Len(e) - 1))
       IN  owner.kind = "dict" /\ ChildOf(config, e).kind \in {"none", "other"}

\* C10: _process_node on None or on a value of an unsupported type makes no
\* _create_dir call, changes nothing and returns to its caller; the key that
\* owns the value stays created and recorded, and when the walk is over the
\* keys after it have been tried.
C10_SkippedWithoutError ==
    /\ [][(pc = "walk" /\ stack # <<>> /\ Top.node.kind \in {"none", "other"})
          => /\ attempts' = attempts
             /\ disk' = disk
             /\ created_dirs' = created_dirs
             /\ stack' = Rest
             /\ pc' \in {"walk", "readme"}]_vars
    /\ [](WalkOver =>
           \A e \in Entries(config) :
               SkippedChild(e) =>
                   /\ EntryStr(e) \in created_dirs
                   /\ Resolve(EntryPath(config, root, e)) \in disk
                   /\ \A f \in Siblings(e) : AttemptedIn(attempts, f))

\* {a: <scalar>, b: None}: both keys were created although a's value is
\* unsupported
C10_Witness ==
    /\ pc = "done"
    /\ config = DictNode(<<Item(nA, ScalarNode), Item(nB, NoneNode)>>)
    /\ SucceededIn(attempts, <<1>>)
    /\ SucceededIn(attempts, <<2>>)
    /\ Len(attempts) = 2

====
